---- MODULE Spec2Model ----
(***************************************************************************)
(* Push-to-talk session controller of src/ptt.py.                          *)
(*                                                                         *)
(* Four kinds of threads run the code: the thread that delivers key-press  *)
(* edges (on_ptt_press), the thread that delivers key-release edges        *)
(* (on_ptt_release), the audio thread (audio_callback) and one thread per  *)
(* spawned do_transcribe_and_type.                                         *)
(*                                                                         *)
(* Granularity: one step per Python statement that reads or writes the     *)
(* shared globals.  A statement under `with state_lock` is a step of the   *)
(* lock holder; audio_callback takes no lock, so its two statements        *)
(* interleave with everything, lock regions included.  Acquiring the lock  *)
(* is folded into the first statement of the region and releasing it into  *)
(* the last one.  The notification calls that follow one another in a      *)
(* handler (set_overlay, set_highlight, update_tray) are one step, and so  *)
(* are the worker's calls that touch no shared global (log, save_wav,      *)
(* transcribe), each taken with the statement before it.                   *)
(*                                                                         *)
(* The hooks are registered for PTT_KEY alone (start_ptt), so the handlers'*)
(* `if e.name != PTT_KEY: return` never returns.  A press or release that  *)
(* its guard rejects returns with nothing changed; the counters count the  *)
(* events that pass the guards.                                            *)
(***************************************************************************)
EXTENDS Integers, Sequences, FiniteSets, TLC

\* ---------------------------------------------------------------- bounds
MaxPress   == 2      \* presses that pass the guard of on_ptt_press
MaxFrames  == 2      \* frames that pass the check of audio_callback
MaxLen     == 4      \* characters in the text of a transcription response

\* ------------------------------------------------------------- constants
TitleLimit == 40     \* title[:40]

None  == "None"      \* Python None
Unset == "unset"     \* history value: nothing recorded yet

OwnWindow == "own"   \* a window of this process (win_pid == _our_pid)
Hwnds     == {"A", "B"}
Windows   == Hwnds \cup {OwnWindow}

\* GetWindowTextW: window A has a short title, window B one of 45 characters
RawTitle(h) == IF h = "A" THEN <<"N", "o", "t", "e">> ELSE [i \in 1..45 |-> "x"]

\* title[:40] + "…" if len(title) > 40 else title
Truncate(t) ==
    IF Len(t) > TitleLimit THEN Append(SubSeq(t, 1, TitleLimit), "...") ELSE t

\* get_focused_window_info(): <<hwnd, title>> of the foreground window w,
\* <<None, "">> when it belongs to this process (the rect is not modelled)
get_focused_window_info(w) ==
    IF w = OwnWindow THEN <<None, <<>>>> ELSE <<w, Truncate(RawTitle(w))>>

VARIABLES
    state,          \* "IDLE" | "RECORDING" | "PROCESSING"
    state_lock,     \* "free" or the thread inside `with state_lock`
    audio_chunks,   \* the list bound to the global audio_chunks
    target_hwnd,    \* global target_hwnd
    target_window,  \* global target_window
    fg,             \* the OS foreground window
    pressPc,        \* position of the press thread in on_ptt_press
    relPc,          \* position of the release thread in on_ptt_release
    chunks,         \* on_ptt_release's local `chunks`
    audPc,          \* position of the audio thread in audio_callback
    audFrame,       \* the frame audio_callback is about to append
    workers,        \* worker id -> the do_transcribe_and_type thread
    tray,           \* the state last given to update_tray
    overlay,        \* the state last given to set_overlay
    hl,             \* the window last given to the highlight, or "hidden"
    sid,            \* number of presses that passed the guard: the session
    nFrames,        \* number of frames that passed audio_callback's check
    relSid,         \* history: session whose release took the snapshot
    sessTarget,     \* history: session -> hwnd its press resolved
    held,           \* history: a press recorded a target and state has not
                    \*          been set to IDLE since
    body,           \* the "text" member of the transcription response
    text,           \* do_transcribe_and_type's local `text`
    textPc          \* position of the worker whose text is followed
                    \* character by character, "off" when none is

vars == <<state, state_lock, audio_chunks, target_hwnd, target_window, fg,
          pressPc, relPc, chunks, audPc, audFrame, workers, tray, overlay,
          hl, sid, nFrames, relSid, sessTarget, held, body, text, textPc>>

session == <<state, state_lock, audio_chunks, target_hwnd, target_window, fg,
             pressPc, relPc, chunks, audPc, audFrame, workers, tray, overlay,
             hl, sid, nFrames, relSid, sessTarget, held>>
txt   == <<body, text, textPc>>

ctl   == <<state, state_lock, audio_chunks, target_hwnd, target_window>>
ui    == <<tray, overlay, hl>>
cnt   == <<sid, nFrames>>
hist  == <<relSid, sessTarget, held>>

\* a release passes its guard only in the RECORDING state that the press of
\* a session has set and ends that state, so a session has at most one worker:
\* worker s is the thread spawned by the release of session s
WorkerIds == 1..MaxPress

\* a frame is known by its number and, as history, by the session that was
\* current when audio_callback checked state; NoFrame is no frame
NoFrame == [n |-> 0, s |-> 0]
Sessions  == 0..MaxPress

\* a worker thread: its position, its argument `chunks` (until save_wav has
\* read it), and as history how its try block went (until the finally block
\* has reset state) and the handle it gave to SetForegroundWindow (until
\* keyboard.write has returned)
NoWorker == [pc |-> "none", chunks |-> <<>>, out |-> Unset, fgh |-> Unset]

\* history is kept of the sessions still referred to: the current one, the
\* one the release handler is working on and those whose worker has not yet
\* reset state
Forget(st, cur, ws, rel) ==
    [s \in Sessions |->
        IF \/ s = cur
           \/ s = rel
           \/ s \in WorkerIds /\ ws[s].pc \in {"start", "fg", "type", "finally"}
        THEN st[s] ELSE Unset]

ModuleLoaded ==
    /\ state = "IDLE"
    /\ state_lock = "free"
    /\ audio_chunks = <<>>
    /\ target_hwnd = None
    /\ target_window = <<>>
    /\ fg \in Windows
    /\ pressPc = "ready"
    /\ relPc = "ready"
    /\ chunks = <<>>
    /\ audPc = "ready"
    /\ audFrame = NoFrame
    /\ workers = [w \in WorkerIds |-> NoWorker]
    /\ tray = "idle"
    /\ overlay = "hidden"
    /\ hl = "hidden"
    /\ sid = 0 /\ nFrames = 0
    /\ relSid = 0
    /\ sessTarget = [s \in Sessions |-> Unset]
    /\ held = FALSE

\* the session controller with abstract transcription outcomes: no text is
\* followed character by character
Init ==
    /\ ModuleLoaded
    /\ body = <<>>
    /\ text = <<>>
    /\ textPc = "off"

\* ------------------------------------------------------ UI notifications
\* set_overlay(state) queues set_state(state) on the tk main loop with
\* win.after(0, ...).  The queue is first-in first-out, so what the overlay
\* shows once the queue has drained is the state given last: the variable
\* overlay holds that state.
set_overlay(s) == s

\* set_highlight(show): queue show(rect of target_hwnd) when show and
\* target_hwnd are truthy, else queue hide
set_highlight(show, hwnd) == IF show /\ hwnd # None THEN hwnd ELSE "hidden"

\* update_tray(state): the tray icon is set at once, on the caller's thread
update_tray(s) == s

\* ---------------------------------------------------------- on_ptt_press
\* a press handler without the guard
PressGuardAny(s) == TRUE

\* a press handler that only rejects a repeated press during a recording
PressGuardNotRecording(s) == s # "RECORDING"

\* `if state != "IDLE": return` passes when:
PressGuard(s) == s = "IDLE"

\* with state_lock: if state != "IDLE": return; state = "RECORDING"
Press_Check ==
    /\ pressPc = "ready"
    /\ state_lock = "free"
    /\ IF PressGuard(state)
       THEN /\ sid < MaxPress
            /\ state' = "RECORDING"
            /\ state_lock' = "press"
            /\ pressPc' = "p_clear"
            /\ sid' = sid + 1
            /\ sessTarget' = Forget(sessTarget, sid + 1, workers, relSid)
            /\ UNCHANGED <<txt, audio_chunks, target_hwnd, target_window, fg,
                           relPc, chunks, audPc, audFrame, workers, ui,
                           nFrames, relSid, held>>
       ELSE UNCHANGED vars

\* a press handler whose focus query is inside the with block
AfterClearStillHeld == "press"

\* the with block of on_ptt_press ends after `audio_chunks = []`, before
\* get_focused_window_info() is called
AfterClear == "free"

\* audio_chunks = [] and the end of the lock region
Press_Clear ==
    /\ pressPc = "p_clear"
    /\ audio_chunks' = <<>>
    /\ state_lock' = AfterClear
    /\ pressPc' = "p_resolve"
    /\ UNCHANGED <<txt, state, target_hwnd, target_window, fg, relPc, chunks,
                   audPc, audFrame, workers, ui, cnt, hist>>

\* target_hwnd, target_window, rect = get_focused_window_info()
Press_Resolve ==
    /\ pressPc = "p_resolve"
    /\ LET r == get_focused_window_info(fg) IN
         /\ target_hwnd' = r[1]
         /\ target_window' = r[2]
         /\ sessTarget' = [sessTarget EXCEPT ![sid] = r[1]]
         /\ held' = (r[1] # None /\ state # "IDLE")
         /\ pressPc' = IF r[1] = None THEN "p_reset" ELSE "p_notify"
    /\ UNCHANGED <<txt, state, state_lock, audio_chunks, fg, relPc, chunks, audPc,
                   audFrame, workers, ui, cnt, relSid>>

\* if target_hwnd is None: with state_lock: state = "IDLE"; return
Press_Reset ==
    /\ pressPc = "p_reset"
    /\ state_lock = "free"
    /\ state' = "IDLE"
    /\ held' = FALSE
    /\ pressPc' = "ready"
    /\ UNCHANGED <<txt, state_lock, audio_chunks, target_hwnd, target_window, fg,
                   relPc, chunks, audPc, audFrame, workers, ui, cnt, relSid,
                   sessTarget>>

\* set_overlay("recording"); set_highlight(True); update_tray("recording")
Press_Notify ==
    /\ pressPc = "p_notify"
    /\ overlay' = set_overlay("recording")
    /\ hl' = set_highlight(TRUE, target_hwnd)
    /\ tray' = update_tray("recording")
    /\ pressPc' = "ready"
    /\ UNCHANGED <<txt, ctl, fg, relPc, chunks, audPc, audFrame, workers, cnt, hist>>

on_ptt_press ==
    Press_Check \/ Press_Clear \/ Press_Resolve \/ Press_Reset \/ Press_Notify

\* -------------------------------------------------------- on_ptt_release
\* a release handler that only rejects a release while a worker is busy
ReleaseGuardNotBusy(s) == s # "PROCESSING"

\* `if state != "RECORDING": return` passes when:
ReleaseGuard(s) == s = "RECORDING"

\* with state_lock: if state != "RECORDING": return; state = "PROCESSING"
Release_Check ==
    /\ relPc = "ready"
    /\ state_lock = "free"
    /\ IF ReleaseGuard(state)
       THEN /\ state' = "PROCESSING"
            /\ state_lock' = "release"
            /\ relPc' = "r_snap"
            /\ relSid' = sid
            /\ UNCHANGED <<txt, audio_chunks, target_hwnd, target_window, fg,
                           pressPc, chunks, audPc, audFrame, workers, ui,
                           sid, nFrames, sessTarget, held>>
       ELSE UNCHANGED vars

\* a release that empties the live buffer once the copy is taken
AfterSnapshotCleared(buf) == <<>>

\* the live buffer once chunks = list(audio_chunks) has run: the copy leaves
\* audio_chunks bound to the same list with the same frames
AfterSnapshot(buf) == buf

\* chunks = list(audio_chunks) and the end of the lock region
Release_Snap ==
    /\ relPc = "r_snap"
    /\ chunks' = audio_chunks
    /\ audio_chunks' = AfterSnapshot(audio_chunks)
    /\ state_lock' = "free"
    /\ relPc' = "r_branch"
    /\ UNCHANGED <<txt, state, target_hwnd, target_window, fg,
                   pressPc, audPc, audFrame, workers, ui, cnt, hist>>

\* if not chunks: with state_lock: state = "IDLE"
Release_Empty ==
    /\ relPc = "r_branch"
    /\ chunks = <<>>
    /\ state_lock = "free"
    /\ state' = "IDLE"
    /\ held' = FALSE
    /\ relPc' = "r_notify"
    /\ UNCHANGED <<txt, state_lock, audio_chunks, target_hwnd, target_window, fg,
                   pressPc, chunks, audPc, audFrame, workers, ui, cnt, relSid,
                   sessTarget>>

\* set_overlay("hidden"); update_tray("idle"); return
Release_Notify ==
    /\ relPc = "r_notify"
    /\ overlay' = set_overlay("hidden")
    /\ tray' = update_tray("idle")
    /\ relPc' = "ready"
    /\ relSid' = 0
    /\ sessTarget' = Forget(sessTarget, sid, workers, 0)
    /\ UNCHANGED <<txt, ctl, fg, pressPc, chunks, audPc, audFrame, workers, hl,
                   cnt, held>>

\* threading.Thread(target=do_transcribe_and_type, args=(chunks,)).start()
Release_Spawn ==
    /\ relPc = "r_branch"
    /\ chunks # <<>>
    /\ workers' = [workers EXCEPT ![relSid] =
                     [NoWorker EXCEPT !.pc = "start", !.chunks = chunks]]
    /\ relPc' = "ready"
    /\ chunks' = <<>>
    /\ relSid' = 0
    /\ UNCHANGED <<txt, ctl, fg, pressPc, audPc, audFrame, ui, cnt, sessTarget,
                   held>>

on_ptt_release ==
    \/ Release_Check \/ Release_Snap \/ Release_Empty \/ Release_Notify
    \/ Release_Spawn

\* -------------------------------------------------------- audio_callback
\* if state == "RECORDING":
Audio_Check ==
    /\ audPc = "ready"
    /\ IF state = "RECORDING"
       THEN /\ nFrames < MaxFrames
            /\ nFrames' = nFrames + 1
            /\ audPc' = "append"
            /\ audFrame' = [n |-> nFrames + 1, s |-> sid]
            /\ UNCHANGED <<txt, ctl, fg, pressPc, relPc, chunks, workers, ui, sid,
                           hist>>
       ELSE UNCHANGED vars

\* audio_chunks.append(indata.copy())
Audio_Append ==
    /\ audPc = "append"
    /\ audio_chunks' = Append(audio_chunks, audFrame)
    /\ audPc' = "ready"
    /\ audFrame' = NoFrame
    /\ UNCHANGED <<txt, state, state_lock, target_hwnd, target_window, fg, pressPc,
                   relPc, chunks, workers, ui, cnt, hist>>

audio_callback == Audio_Check \/ Audio_Append

\* ------------------------------------------------ do_transcribe_and_type
\* what the speech-to-text service does with the request
Responses == {"text", "blank", "failure"}

\* transcribe(wav_buf): the stripped text, "" when nothing is left of it,
\* None on any exception (network error, timeout, bad status, bad body)
transcribe(resp) ==
    IF resp = "text" THEN "text" ELSE IF resp = "blank" THEN "" ELSE None

\* a worker that tests `if text is not None:` and so injects an empty text
TruthyNotNone(t) == t # None

\* `if text:`
Truthy(t) == t # None /\ t # ""

\* a worker whose exception escaped without the finally block
AfterRaiseEscapes == "done"

\* try: ... except Exception: log(...) finally: ...   an exception raised in
\* the body is logged and control continues at the finally block
AfterRaise == "finally"

\* set_overlay("processing"); update_tray("processing");
\* wav_buf = save_wav(chunks, SAMPLE_RATE); text = transcribe(wav_buf)
Worker_Start(w) ==
    /\ workers[w].pc = "start"
    /\ overlay' = set_overlay("processing")
    /\ tray' = update_tray("processing")
    /\ \/ \E resp \in Responses :
            workers' = [workers EXCEPT
                          ![w].chunks = <<>>,
                          ![w].out = resp,
                          ![w].pc = IF Truthy(transcribe(resp))
                                    THEN "fg" ELSE "finally"]
       \/ workers' = [workers EXCEPT ![w].chunks = <<>>, ![w].out = "raised",
                                     ![w].pc = AfterRaise]
    /\ UNCHANGED <<txt, ctl, fg, pressPc, relPc, chunks, audPc, audFrame, hl, cnt,
                   hist>>

\* if target_hwnd: SetForegroundWindow(target_hwnd)   (the call may be
\* refused by the OS, and then the foreground window stays)
Worker_Foreground(w) ==
    /\ workers[w].pc = "fg"
    /\ workers' = [workers EXCEPT ![w].fgh = target_hwnd, ![w].pc = "type"]
    /\ fg' \in (IF target_hwnd # None THEN {target_hwnd, fg} ELSE {fg})
    /\ UNCHANGED <<txt, ctl, pressPc, relPc, chunks, audPc, audFrame, ui, cnt, hist>>

\* time.sleep(0.15); keyboard.write(text, delay=0.015): the keystrokes go to
\* the window that is in the foreground then, or the call raises
Worker_Type(w) ==
    /\ workers[w].pc = "type"
    /\ \/ workers' = [workers EXCEPT ![w].out = "typed", ![w].fgh = Unset,
                                     ![w].pc = "finally"]
       \/ workers' = [workers EXCEPT ![w].out = "raised", ![w].fgh = Unset,
                                     ![w].pc = AfterRaise]
    /\ UNCHANGED <<txt, ctl, fg, pressPc, relPc, chunks, audPc, audFrame, ui, cnt,
                   hist>>

\* finally: with state_lock: state = "IDLE"
Worker_Finally(w) ==
    /\ workers[w].pc = "finally"
    /\ state_lock = "free"
    /\ state' = "IDLE"
    /\ held' = FALSE
    /\ workers' = [workers EXCEPT ![w].pc = "tail", ![w].out = Unset]
    /\ sessTarget' = Forget(sessTarget, sid, workers', relSid)
    /\ UNCHANGED <<txt, state_lock, audio_chunks, target_hwnd, target_window, fg,
                   pressPc, relPc, chunks, audPc, audFrame, ui, cnt, relSid>>

\* set_overlay("hidden"); set_highlight(False); update_tray("idle"), and the
\* thread ends
Worker_Tail(w) ==
    /\ workers[w].pc = "tail"
    /\ overlay' = set_overlay("hidden")
    /\ hl' = set_highlight(FALSE, target_hwnd)
    /\ tray' = update_tray("idle")
    /\ workers' = [workers EXCEPT ![w] = [NoWorker EXCEPT !.pc = "done"]]
    /\ UNCHANGED <<txt, ctl, fg, pressPc, relPc, chunks, audPc, audFrame, cnt, hist>>

do_transcribe_and_type(w) ==
    \/ Worker_Start(w) \/ Worker_Foreground(w) \/ Worker_Type(w)
    \/ Worker_Finally(w) \/ Worker_Tail(w)

\* ------------------------------------------------------------ environment
\* the user moves the input focus to another window
FocusChange ==
    /\ fg' \in Windows \ {fg}
    /\ UNCHANGED <<txt, ctl, pressPc, relPc, chunks, audPc, audFrame, workers, ui,
                   cnt, hist>>

Next ==
    \/ on_ptt_press
    \/ on_ptt_release
    \/ audio_callback
    \/ \E w \in WorkerIds : do_transcribe_and_type(w)
    \/ FocusChange

Spec == Init /\ [][Next]_vars

\* every thread that can take a step eventually takes one
LiveSpec ==
    /\ Spec
    /\ WF_vars(on_ptt_press)
    /\ WF_vars(on_ptt_release)
    /\ \A w \in WorkerIds : WF_vars(do_transcribe_and_type(w))

\* ------------------------------------------- the text of a transcription
\* the characters a response text is made of: two letters, the space and
\* the tab; str.strip() and str.split() treat space and tab alike
Chars      == {"a", "b", " ", "\t"}
Whitespace == {" ", "\t"}
Str        == UNION {[1..n -> Chars] : n \in 0..MaxLen}

RECURSIVE lstrip(_)
lstrip(s) ==
    IF s # <<>> /\ Head(s) \in Whitespace THEN lstrip(Tail(s)) ELSE s

RECURSIVE rstrip(_)
rstrip(s) ==
    IF s # <<>> /\ s[Len(s)] \in Whitespace
    THEN rstrip(SubSeq(s, 1, Len(s) - 1)) ELSE s

\* str.strip()
strip(s) == rstrip(lstrip(s))

\* length of the word a string without leading whitespace starts with
WordLen(s) ==
    IF \E i \in 1..Len(s) : s[i] \in Whitespace
    THEN (CHOOSE i \in 1..Len(s) :
              s[i] \in Whitespace /\ \A j \in 1..(i - 1) : s[j] \notin Whitespace) - 1
    ELSE Len(s)

\* str.split(): the words between runs of whitespace, none of them empty
RECURSIVE split(_)
split(s) ==
    LET r == lstrip(s)
    IN  IF r = <<>> THEN <<>>
        ELSE <<SubSeq(r, 1, WordLen(r))>>
                 \o split(SubSeq(r, WordLen(r) + 1, Len(r)))

\* sep.join(words)
RECURSIVE join(_, _)
join(sep, words) ==
    IF words = <<>> THEN <<>>
    ELSE IF Len(words) = 1 THEN words[1]
    ELSE words[1] \o sep \o join(sep, Tail(words))

\* a worker that types the stripped text as it came
NormalizeVerbatim(t) == t

\* text = " ".join(text.split())
Normalize(t) == join(<<" ">>, split(t))

\* return resp.json().get("text", "").strip()
Text_Transcribe ==
    /\ textPc = "request"
    /\ text' = strip(body)
    /\ textPc' = "test"
    /\ UNCHANGED <<session, body>>

\* if text: text = " ".join(text.split())
Text_Join ==
    /\ textPc = "test"
    /\ text # <<>>
    /\ text' = Normalize(text)
    /\ textPc' = "write"
    /\ UNCHANGED <<session, body>>

\* else: log("No transcription returned.")
Text_Skip ==
    /\ textPc = "test"
    /\ text = <<>>
    /\ textPc' = "skipped"
    /\ UNCHANGED <<session, body, text>>

\* keyboard.write(text, delay=0.015)
Text_Write ==
    /\ textPc = "write"
    /\ textPc' = "written"
    /\ UNCHANGED <<session, body, text>>

\* a worker has sent its request and the service answers with any text
TextInit ==
    /\ ModuleLoaded
    /\ body \in Str
    /\ text = <<>>
    /\ textPc = "request"

TextNext == Text_Transcribe \/ Text_Join \/ Text_Skip \/ Text_Write

TextSpec == TextInit /\ [][TextNext]_vars

TypeOK ==
    /\ state \in {"IDLE", "RECORDING", "PROCESSING"}
    /\ state_lock \in {"free", "press", "release"}
    /\ target_hwnd \in Hwnds \cup {None}
    /\ fg \in Windows
    /\ pressPc \in {"ready", "p_clear", "p_resolve", "p_reset", "p_notify"}
    /\ relPc \in {"ready", "r_snap", "r_branch", "r_notify"}
    /\ audPc \in {"ready", "append"}
    /\ tray \in {"idle", "recording", "processing"}
    /\ overlay \in {"hidden", "recording", "processing"}
    /\ sid \in Sessions
    /\ body \in Str
    /\ text \in Str
    /\ textPc \in {"off", "request", "test", "write", "written", "skipped"}

\* ------------------------------------------------------------------ claims
Running(w) == workers[w].pc \in {"start", "fg", "type", "finally", "tail"}
BeforeReset(w) == workers[w].pc \in {"start", "fg", "type", "finally"}
Accepted == audio_chunks' = Append(audio_chunks, audFrame) /\ audPc = "append"

\* C1: no press is accepted (state set to RECORDING) while a worker spawned
\* for an earlier session has not yet set state back to IDLE.
C1_NoPressWhileWorkerBusy ==
    [][(state # "RECORDING" /\ state' = "RECORDING")
         => ~ \E w \in WorkerIds : BeforeReset(w)]_vars

\* C2: in every reachable state at most one do_transcribe_and_type thread is
\* between its start and its return, the tail after the reset included.
C2_AtMostOneWorker ==
    Cardinality({w \in WorkerIds : Running(w)}) <= 1

C4_ForegroundIsSessionTarget ==
    \A w \in WorkerIds :
        (workers[w].pc = "type" /\ workers[w].fgh \in Hwnds)
            => workers[w].fgh = sessTarget[w]

\* C5: state becomes RECORDING only from IDLE and PROCESSING only from
\* RECORDING.
C5_LegalTransitions ==
    [][/\ (state # "RECORDING" /\ state' = "RECORDING") => state = "IDLE"
       /\ (state # "PROCESSING" /\ state' = "PROCESSING") => state = "RECORDING"]_vars

\* C5 witness: the second session has gone from IDLE through RECORDING to
\* PROCESSING.
C5_Witness == state = "PROCESSING" /\ sid = 2 /\ relSid = 2

\* C6: while on_ptt_press handles a press for which the focus query found
\* the application's own window, state is IDLE (never observably RECORDING).
C6_OwnWindowPressStaysIdle ==
    pressPc = "p_reset" => state = "IDLE"

\* C7: a release that found zero frames takes state from RECORDING to IDLE
\* with no PROCESSING state in between.
C7_EmptyReleaseNoProcessing ==
    (relPc = "r_branch" /\ chunks = <<>>) => state # "PROCESSING"

\* C8: whenever state is PROCESSING it eventually is IDLE again, whatever the
\* outcome of encoding, transcription and injection.
C8_ProcessingLeadsToIdle ==
    (state = "PROCESSING") ~> (state = "IDLE")

\* C8 witness: the worker of the current session has run its finally block
\* and state, which was PROCESSING, is IDLE.
C8_Witness ==
    \E w \in WorkerIds :
        /\ workers[w].pc = "tail" /\ sid = w
        /\ pressPc = "ready" /\ relPc = "ready"
        /\ state = "IDLE"

\* C9: audio_chunks never grows in a step taken while state is PROCESSING or
\* IDLE.
C9_AppendOnlyWhileRecording ==
    [][Len(audio_chunks') > Len(audio_chunks) => state = "RECORDING"]_vars

\* C10: no frame is appended while state is RECORDING and the press handler
\* has not yet stored the session's target window.
C10_NoFrameBeforeTarget ==
    [][Accepted => ~(state = "RECORDING" /\ sessTarget[sid] = Unset)]_vars

\* C11: the chunks list given to the worker of a session holds, in arrival
\* order, every frame for which audio_callback found state == "RECORDING"
\* during that session.
C11_SnapshotHasAllFrames ==
    \A w \in WorkerIds :
        workers[w].pc = "start" =>
            /\ ~(audPc = "append" /\ audFrame.s = w)
            /\ \A i \in 1..Len(audio_chunks) :
                   audio_chunks[i].s = w =>
                       \E j \in 1..Len(workers[w].chunks) :
                           workers[w].chunks[j] = audio_chunks[i]
            /\ \A i, j \in 1..Len(workers[w].chunks) :
                   i < j => workers[w].chunks[i].n < workers[w].chunks[j].n

\* C12 (as stated): right after the release handler's snapshot the live
\* buffer audio_chunks is empty.
C12_BufferClearedAtSnapshot ==
    (relPc = "r_branch" /\ chunks # <<>>) => audio_chunks = <<>>

\* C12 (amended): the snapshot step copies the live buffer and leaves it as it
\* is, and a non-empty audio_chunks is emptied only by the clear in the lock
\* region of an accepted press.
C12_BufferClearedOnlyByPress ==
    [][ /\ (relPc = "r_snap" /\ relPc' = "r_branch") =>
               (chunks' = audio_chunks /\ audio_chunks' = audio_chunks)
        /\ (audio_chunks # <<>> /\ audio_chunks' = <<>>) =>
               (pressPc = "p_clear" /\ pressPc' = "p_resolve") ]_vars

\* a release has taken a non-empty snapshot and the live buffer still holds
\* the same frames
C12_Witness ==
    /\ relPc = "r_branch"
    /\ state = "PROCESSING"
    /\ chunks # <<>>
    /\ audio_chunks = chunks

\* no press handler, release handler or worker is between its first and its
\* last statement; the displayed state is then the last notification sent
Quiescent ==
    /\ pressPc = "ready"
    /\ relPc = "ready"
    /\ \A w \in WorkerIds : ~Running(w)

\* C13: in every quiescent state the last state notification sent to the
\* overlay and to the tray corresponds to the current value of state.
C13_IndicatorsMatchState ==
    Quiescent =>
        /\ state = "IDLE" => (overlay = "hidden" /\ tray = "idle")
        /\ state = "RECORDING" => (overlay = "recording" /\ tray = "recording")
        /\ state = "PROCESSING" => (overlay = "processing" /\ tray = "processing")

\* C14: an event rejected by its guard is a no-op.  While the press handler
\* is at its entry and state is not IDLE no step starts a session or writes
\* the target; while the release handler is at its entry and state is not
\* RECORDING no step takes a snapshot or spawns a worker.
C14_RejectedEventNoOp ==
    [][ /\ (pressPc = "ready" /\ state # "IDLE") =>
               /\ pressPc' = "ready"
               /\ sid' = sid
               /\ UNCHANGED <<target_hwnd, target_window>>
               /\ audio_chunks' # audio_chunks =>
                      audio_chunks' = Append(audio_chunks, audFrame)
        /\ (relPc = "ready" /\ state # "RECORDING") =>
               /\ relPc' = "ready"
               /\ chunks' = chunks
               /\ \A w \in WorkerIds :
                      workers[w].pc = "none" => workers'[w].pc = "none" ]_vars

\* a worker is running, state is PROCESSING and both handlers are at their
\* entry: a press or a release delivered now is rejected
C14_Witness ==
    /\ state = "PROCESSING"
    /\ state_lock = "free"
    /\ pressPc = "ready"
    /\ relPc = "ready"
    /\ sid < MaxPress
    /\ \E w \in WorkerIds : workers[w].pc = "start"

\* the outcomes of the request that yield no text: an empty or all-blank
\* transcript, and every failure of the request
NoText == {"blank", "failure"}

\* C15: when transcription yields no text the worker goes from the request
\* straight to its finally block (no bring-to-foreground, no injection, no
\* escaping exception), its reset leaves state IDLE, and the session that
\* spawned it went IDLE -> RECORDING -> PROCESSING -> IDLE.
C15_NoTextNoInjection ==
    [][ /\ \A w \in WorkerIds :
              /\ (workers[w].pc = "start" /\ workers'[w].out \in NoText) =>
                     workers'[w].pc = "finally"
              /\ (workers[w].out \in NoText /\ workers'[w] # workers[w]) =>
                     /\ workers[w].pc = "finally"
                     /\ workers[w].fgh = Unset
                     /\ workers'[w].pc = "tail"
                     /\ state' = "IDLE"
              /\ (workers[w].pc = "none" /\ workers'[w].pc # "none") =>
                     (relSid = w /\ workers'[w].pc = "start")
        /\ sid' # sid => (state = "IDLE" /\ state' = "RECORDING")
        /\ (relSid' # relSid /\ relSid' # 0) =>
               (relSid' = sid /\ state = "RECORDING" /\ state' = "PROCESSING")
        /\ (state = "PROCESSING" /\ state' # state) => state' = "IDLE" ]_vars

\* the request of a running worker has failed and the worker stands at its
\* finally block
C15_Witness ==
    \E w \in WorkerIds :
        /\ workers[w].pc = "finally"
        /\ workers[w].out = "failure"
        /\ state = "PROCESSING"

\* every run of whitespace becomes one space
RECURSIVE CollapseRuns(_)
CollapseRuns(s) ==
    IF s = <<>> THEN <<>>
    ELSE IF Head(s) \notin Whitespace THEN <<Head(s)>> \o CollapseRuns(Tail(s))
    ELSE IF Len(s) > 1 /\ s[2] \in Whitespace THEN CollapseRuns(Tail(s))
    ELSE <<" ">> \o CollapseRuns(Tail(s))

\* the space a collapsed text starts with and the one it ends with removed
TrimEnds(s) ==
    LET a == IF s # <<>> /\ s[1] = " " THEN Tail(s) ELSE s
    IN  IF a # <<>> /\ a[Len(a)] = " " THEN SubSeq(a, 1, Len(a) - 1) ELSE a

\* C16: the text given to keyboard.write is the transcript with each run of
\* whitespace collapsed to one space and leading and trailing whitespace
\* removed; a transcript of which nothing is left then is not injected.
C16_InjectedTextNormalized ==
    /\ textPc \in {"write", "written"} =>
           (text = TrimEnds(CollapseRuns(body)) /\ text # <<>>)
    /\ textPc = "skipped" => TrimEnds(CollapseRuns(body)) = <<>>

\* a transcript that starts and ends with a letter and has a run of
\* whitespace inside has been typed
C16_Witness ==
    /\ textPc = "written"
    /\ Len(body) = MaxLen
    /\ body[1] \notin Whitespace
    /\ body[Len(body)] \notin Whitespace
    /\ Len(text) < Len(body)

\* the positions at which a handler is about to query the focus, write the
\* log or send a UI notification
PressIO   == {"p_resolve", "p_reset", "p_notify"}
ReleaseIO == {"r_branch", "r_notify"}

\* C17: audio_callback can take its step whoever holds state_lock, and the
\* thread that holds state_lock is at none of the positions where it queries
\* the focus, logs, calls the service, sleeps, notifies the UI or types.
C17_LockNotHeldAcrossIO ==
    /\ state_lock = "press" => pressPc \notin PressIO \cup {"ready"}
    /\ state_lock = "release" => relPc \notin ReleaseIO \cup {"ready"}
    /\ state_lock \in {"free", "press", "release"}
    /\ audPc = "append" => ENABLED Audio_Append
    /\ (audPc = "ready" /\ nFrames < MaxFrames) => ENABLED Audio_Check

\* the release handler is inside its lock region while audio_callback stands
\* between its check and its append
C17_Witness ==
    /\ state_lock = "release"
    /\ relPc = "r_snap"
    /\ audPc = "append"

\* C18: the chunks list given to the worker of a session holds only frames
\* for which audio_callback found state == "RECORDING" during that session.
C18_NoFrameOfOtherSession ==
    \A w \in WorkerIds :
        workers[w].pc = "start" =>
            \A i \in 1..Len(workers[w].chunks) : workers[w].chunks[i].s = w

\* C19: when a worker executes `state = "IDLE"` in its finally block, state
\* is PROCESSING and the current session is the one that spawned the worker.
C19_ResetOwnProcessing ==
    [][ \A w \in WorkerIds :
            (workers[w].pc = "finally" /\ workers'[w].pc = "tail") =>
                (state = "PROCESSING" /\ sid = w) ]_vars

\* C20: once a started session has ended and nothing is in flight, the
\* overlay is hidden, the tray shows idle and the highlight is hidden.
C20_IndicatorsOffWhenIdle ==
    (Quiescent /\ state = "IDLE" /\ sid > 0) =>
        (overlay = "hidden" /\ tray = "idle" /\ hl = "hidden")

====
